---- MODULE Spec2Model ----
(***************************************************************************)
(* AutoNewsVideo: the news-to-video pipeline.                              *)
(*                                                                         *)
(* One run of AutoVideoGenerator.generate_news_video (or                   *)
(* generate_from_news_list) is modelled as a single-threaded state         *)
(* machine: pc is the position of the run, the other variables are the     *)
(* locals of the orchestrator and of the VideoGenerator calls it makes,    *)
(* the filesystem, and history variables that record which collaborator    *)
(* calls failed and which external commands were issued.                   *)
(*                                                                         *)
(* News items are identified by integers 1..n.  A path is a record         *)
(* [kind, item]: item 0 is the overview/summary, kind "segment" paths are  *)
(* numbered by loop index.  Durations are whole seconds.  The keys         *)
(* 'summary' and 'item_i' of the audio mapping are the integers 0 and i.   *)
(***************************************************************************)
EXTENDS Integers, Sequences, FiniteSets, TLC

\* Largest number of news items a fetch (or a caller's list) delivers.
MaxItems == 2

\* _get_audio_duration: the value returned when the probe fails.
AudioFallback == 5

\* _get_video_duration: the value returned when the probe fails.
VideoFallback == 10

\* Length, in seconds, of the fade-out in add_transition ("st=duration-1").
FadeSeconds == 1

\* The duration ffprobe reports for every narration file that it can read.
MeasuredAudio == {4}

VARIABLES
    entry,            \* which public method was called
    pc,               \* position of the run
    result,           \* outcome of the run: status, returned path, raised error and its stage
    stages,           \* history: orchestrator stages entered, in order
    calls,            \* history: content collaborator calls made, with their outcome
    raw_news_data,    \* generate_news_video: what the fetcher returned
    json_outcome,     \* history: outcome of generate_news_json per raw position
    processed_news,   \* processed_news / news_items
    summary,          \* "none" or "summary"
    introductions,    \* list of introduction texts
    overview_image,   \* path or NoPath
    news_images,      \* list of image paths
    image_failed,     \* history: positions (1-based) whose rendering failed
    audio_files,      \* generate_all_audio: key -> path
    audio_failed,     \* history: keys whose speech synthesis failed
    aud_i,            \* generate_all_audio: key being generated
    tts_ok,           \* outcome of the pending run_until_complete
    openLoops,        \* number of event loops created and not yet closed
    image_paths,      \* create_video_from_images: image_paths (all_images)
    audio_paths,      \* create_video_from_images: audio_paths (all_audios)
    durations,        \* create_video_from_images: durations
    probe_log,        \* history: outcome of every duration probe, with its result
    temp_videos,      \* create_video_from_images: temp_videos
    temp_created,     \* history: temporary files the call created
    encoded,          \* history: every create_video_segment invocation
    concat_manifest,  \* lines written to the concat file
    pending,          \* what the try block of create_video_from_images ended with
    cvfi_exit,        \* "none", "returned" or "raised": exit of create_video_from_images
    video_path,       \* create_final_video: the intermediate video
    transition_type,  \* add_transition: transition_type
    commands,         \* history: external commands issued, in order
    fs                \* the filesystem: set of existing paths

vars == <<entry, pc, result, stages, calls, raw_news_data, json_outcome, processed_news,
          summary, introductions, overview_image, news_images, image_failed,
          audio_files, audio_failed, aud_i, tts_ok, openLoops, image_paths,
          audio_paths, durations, probe_log, temp_videos, temp_created, encoded,
          concat_manifest, pending, cvfi_exit, video_path, transition_type,
          commands, fs>>

orchVars == <<raw_news_data, json_outcome, processed_news, summary, introductions,
              overview_image, news_images, image_failed>>
ttsVars == <<audio_files, audio_failed, aud_i, tts_ok, openLoops>>
videoVars == <<image_paths, audio_paths, durations, probe_log, temp_videos,
               temp_created, encoded, concat_manifest, pending, cvfi_exit,
               video_path, transition_type>>

----------------------------------------------------------------------------
\* Values

Path(k, i) == [kind |-> k, item |-> i]
NoPath == Path("none", 0)

\* output/video/news_video_<timestamp>.mp4, the default output_path of
\* create_video_from_images.
IntermediatePath == Path("news_video", 0)
\* The output_path of create_final_video.
FinalPath == Path("final", 0)
\* The NamedTemporaryFile(mode='w', suffix='.txt') concat file.
ConcatPath == Path("concat", 0)

Outcome(st, p, err, stage) == [status |-> st, path |-> p, error |-> err, stage |-> stage]

Call(name, arg, ok) == [call |-> name, arg |-> arg, ok |-> ok]

Min(a, b) == IF a <= b THEN a ELSE b

RECURSIVE SumSeq(_)
SumSeq(s) == IF s = <<>> THEN 0 ELSE Head(s) + SumSeq(Tail(s))

Range(s) == {s[k] : k \in 1 .. Len(s)}

----------------------------------------------------------------------------
\* Pure helpers of the orchestrator and its collaborators

\* Outcomes of one LLMClient.generate_news_json call: it raises, or returns a
\* record with or without the field created_at.
JsonOutcomes == {"fail", "with_created_at", "without_created_at"}

\* The record appended to processed_news for raw item x: the LLM's record,
\* with created_at filled in by the orchestrator when the LLM left it out.
FormattedNews(x, o) ==
    [id |-> x, created_at |-> IF o = "without_created_at" THEN "now" ELSE "llm"]

\* ProcessLoop with "break" in place of "continue": the first failing item
\* ends the loop.
RECURSIVE ProcessLoopBreak(_, _, _, _)
ProcessLoopBreak(raw, outcome, k, acc) ==
    IF k > Len(raw) THEN acc
    ELSE IF outcome[k] = "fail"
         THEN acc
         ELSE ProcessLoopBreak(raw, outcome, k + 1,
                               Append(acc, FormattedNews(raw[k], outcome[k])))

\* The loop of _process_news_data from raw position k on; acc is
\* processed_news so far.  A failing item is skipped ("continue").
RECURSIVE ProcessLoop(_, _, _, _)
ProcessLoop(raw, outcome, k, acc) ==
    IF k > Len(raw) THEN acc
    ELSE IF outcome[k] = "fail"
         THEN ProcessLoop(raw, outcome, k + 1, acc)
         ELSE ProcessLoop(raw, outcome, k + 1,
                          Append(acc, FormattedNews(raw[k], outcome[k])))

_process_news_data(raw, outcome) == ProcessLoop(raw, outcome, 1, <<>>)

\* The text generate_item_introduction returns for a news item.
Introduction(news_item) == Path("intro", news_item.id)

\* The file generate_news_item_image writes for a news item.
NewsItemImage(news_item) == Path("image", news_item.id)

\* ImagesLoop without the try block: the first failing item ends the loop.
RECURSIVE ImagesLoopBreak(_, _, _, _)
ImagesLoopBreak(news_items, failed, i, image_paths_acc) ==
    IF i > Len(news_items) THEN image_paths_acc
    ELSE IF i \in failed
         THEN image_paths_acc
         ELSE ImagesLoopBreak(news_items, failed, i + 1,
                              Append(image_paths_acc, NewsItemImage(news_items[i])))

\* The loop of generate_all_news_images from position i on (enumerate from
\* 1); failed is the set of positions whose rendering raises.
RECURSIVE ImagesLoop(_, _, _, _)
ImagesLoop(news_items, failed, i, image_paths_acc) ==
    IF i > Len(news_items) THEN image_paths_acc
    ELSE IF i \in failed
         THEN ImagesLoop(news_items, failed, i + 1, image_paths_acc)
         ELSE ImagesLoop(news_items, failed, i + 1,
                         Append(image_paths_acc, NewsItemImage(news_items[i])))

generate_all_news_images(news_items, failed) ==
    ImagesLoop(news_items, failed, 1, <<>>)

\* The file a narration call writes: the summary audio for key 0, the audio
\* of the i-th introduction for key i.
AudioOf(i, intros) ==
    IF i = 0 THEN Path("audio", 0) ELSE Path("audio", intros[i].item)

----------------------------------------------------------------------------
\* Initial state: a call of one of the two public methods.

\* The list a caller hands to generate_from_news_list (already formatted).
NewsList(n) == [i \in 1 .. n |-> FormattedNews(i, "with_created_at")]

Init ==
    /\ entry \in {"generate_news_video", "generate_from_news_list"}
    /\ pc = IF entry = "generate_news_video" THEN "fetch" ELSE "summarize"
    /\ stages = IF entry = "generate_news_video" THEN <<"fetch">> ELSE <<"summarize">>
    /\ result = Outcome("running", NoPath, "none", "none")
    /\ calls = <<>>
    /\ raw_news_data = <<>>
    /\ json_outcome = <<>>
    /\ \E n \in 0 .. MaxItems :
          processed_news = IF entry = "generate_news_video" THEN <<>> ELSE NewsList(n)
    /\ summary = "none"
    /\ introductions = <<>>
    /\ overview_image = NoPath
    /\ news_images = <<>>
    /\ image_failed = {}
    /\ audio_files = <<>>
    /\ audio_failed = {}
    /\ aud_i = 0
    /\ tts_ok = FALSE
    /\ openLoops = 0
    /\ image_paths = <<>>
    /\ audio_paths = <<>>
    /\ durations = <<>>
    /\ probe_log = <<>>
    /\ temp_videos = <<>>
    /\ temp_created = {}
    /\ encoded = <<>>
    /\ concat_manifest = <<>>
    /\ pending = "none"
    /\ cvfi_exit = "none"
    /\ video_path = NoPath
    /\ transition_type = "fade"
    /\ commands = <<>>
    /\ fs = {}

\* Raise with the failing step tried again: the error is recorded and the run
\* stays where it is.
RaiseAndRetry(err, stage) ==
    /\ pc' = pc
    /\ result' = Outcome("raised", NoPath, err, stage)

\* An exception leaves generate_news_video / generate_from_news_list: the
\* except block logs it and re-raises it.
Raise(err, stage) ==
    /\ pc' = "raised"
    /\ result' = Outcome("raised", NoPath, err, stage)

----------------------------------------------------------------------------
\* Orchestrator: content stages

\* Step 1: raw_news_data = news_data_fetcher()
Fetch ==
    /\ pc = "fetch"
    /\ \/ /\ \E n \in 0 .. MaxItems : raw_news_data' = [i \in 1 .. n |-> i]
          /\ calls' = Append(calls, Call("news_data_fetcher", 0, TRUE))
          /\ pc' = "process"
          /\ stages' = Append(stages, "process")
          /\ UNCHANGED result
       \/ /\ calls' = Append(calls, Call("news_data_fetcher", 0, FALSE))
          /\ Raise("FetchError", "fetch")
          /\ UNCHANGED <<raw_news_data, stages>>
    /\ UNCHANGED <<entry, json_outcome, processed_news, summary, introductions,
                   overview_image, news_images, image_failed, commands, fs>>
    /\ UNCHANGED ttsVars
    /\ UNCHANGED videoVars

\* Step 2: processed_news = self._process_news_data(raw_news_data)
ProcessNewsData ==
    /\ pc = "process"
    /\ \E outcome \in [1 .. Len(raw_news_data) -> JsonOutcomes] :
          /\ json_outcome' = outcome
          /\ processed_news' = _process_news_data(raw_news_data, outcome)
          /\ calls' = calls \o [k \in 1 .. Len(raw_news_data) |->
                                   Call("generate_news_json", k, outcome[k] # "fail")]
    /\ pc' = "summarize"
    /\ stages' = Append(stages, "summarize")
    /\ UNCHANGED <<entry, result, raw_news_data, summary, introductions,
                   overview_image, news_images, image_failed, commands, fs>>
    /\ UNCHANGED ttsVars
    /\ UNCHANGED videoVars

\* GenerateSummary with the exception swallowed: the run goes on without a
\* summary.
GenerateSummarySwallowed ==
    /\ pc = "summarize"
    /\ \/ /\ summary' = "summary"
          /\ calls' = Append(calls, Call("generate_summary", 0, TRUE))
       \/ /\ summary' = "none"
          /\ calls' = Append(calls, Call("generate_summary", 0, FALSE))
    /\ pc' = IF processed_news = <<>> THEN "overview_image" ELSE "introduce"
    /\ stages' = IF processed_news = <<>>
                 THEN stages \o <<"introduce", "image">>
                 ELSE Append(stages, "introduce")
    /\ UNCHANGED <<entry, result, raw_news_data, json_outcome, processed_news,
                   introductions, overview_image, news_images, image_failed,
                   commands, fs>>
    /\ UNCHANGED ttsVars
    /\ UNCHANGED videoVars

\* Step 3: summary = self.llm_client.generate_summary(processed_news)
GenerateSummary ==
    /\ pc = "summarize"
    /\ \/ /\ summary' = "summary"
          /\ calls' = Append(calls, Call("generate_summary", 0, TRUE))
          /\ pc' = IF processed_news = <<>> THEN "overview_image" ELSE "introduce"
          /\ stages' = IF processed_news = <<>>
                       THEN stages \o <<"introduce", "image">>
                       ELSE Append(stages, "introduce")
          /\ UNCHANGED result
       \/ /\ calls' = Append(calls, Call("generate_summary", 0, FALSE))
          /\ Raise("SummaryError", "summarize")
          /\ UNCHANGED <<summary, stages>>
    /\ UNCHANGED <<entry, raw_news_data, json_outcome, processed_news, introductions,
                   overview_image, news_images, image_failed, commands, fs>>
    /\ UNCHANGED ttsVars
    /\ UNCHANGED videoVars

\* Step 4, one iteration of the loop: generate_item_introduction for the next
\* news item.  There is no try block around the call.
GenerateItemIntroduction ==
    /\ pc = "introduce"
    /\ LET k == Len(introductions) + 1 IN
       \/ /\ introductions' = Append(introductions, Introduction(processed_news[k]))
          /\ calls' = Append(calls, Call("generate_item_introduction", k, TRUE))
          /\ pc' = IF k = Len(processed_news) THEN "overview_image" ELSE "introduce"
          /\ stages' = IF k = Len(processed_news) THEN Append(stages, "image") ELSE stages
          /\ UNCHANGED result
       \/ /\ calls' = Append(calls, Call("generate_item_introduction", k, FALSE))
          /\ Raise("IntroductionError", "introduce")
          /\ UNCHANGED <<introductions, stages>>
    /\ UNCHANGED <<entry, raw_news_data, json_outcome, processed_news, summary,
                   overview_image, news_images, image_failed, commands, fs>>
    /\ UNCHANGED ttsVars
    /\ UNCHANGED videoVars

\* Step 5a: overview_image = self.html_converter.generate_overview_image(...)
GenerateOverviewImage ==
    /\ pc = "overview_image"
    /\ \/ /\ overview_image' = Path("image", 0)
          /\ calls' = Append(calls, Call("generate_overview_image", 0, TRUE))
          /\ fs' = fs \cup {Path("image", 0)}
          /\ pc' = "news_images"
          /\ UNCHANGED result
       \/ /\ calls' = Append(calls, Call("generate_overview_image", 0, FALSE))
          /\ Raise("RenderError", "image")
          /\ UNCHANGED <<overview_image, fs>>
    /\ UNCHANGED <<entry, stages, raw_news_data, json_outcome, processed_news, summary,
                   introductions, news_images, image_failed, commands>>
    /\ UNCHANGED ttsVars
    /\ UNCHANGED videoVars

\* Step 5b: news_images = self.html_converter.generate_all_news_images(...)
GenerateAllNewsImages ==
    /\ pc = "news_images"
    /\ \E failed \in SUBSET (1 .. Len(processed_news)) :
          /\ image_failed' = failed
          /\ news_images' = generate_all_news_images(processed_news, failed)
          /\ fs' = fs \cup Range(generate_all_news_images(processed_news, failed))
          /\ calls' = calls \o [i \in 1 .. Len(processed_news) |->
                                   Call("generate_news_item_image", i, i \notin failed)]
    /\ pc' = "loop_new"
    /\ stages' = Append(stages, "narrate")
    /\ UNCHANGED <<entry, result, raw_news_data, json_outcome, processed_news, summary,
                   introductions, overview_image, commands>>
    /\ UNCHANGED ttsVars
    /\ UNCHANGED videoVars

----------------------------------------------------------------------------
\* Step 6: TTSGenerator.generate_all_audio(summary, processed_news, introductions)
\* Key aud_i = 0 is generate_summary_audio, key i >= 1 is generate_item_audio
\* for the i-th introduction.

AudioCall(i) == IF i = 0 THEN "generate_summary_audio" ELSE "generate_item_audio"

\* loop = asyncio.new_event_loop(); asyncio.set_event_loop(loop)
NewEventLoop ==
    /\ pc = "loop_new"
    /\ openLoops' = openLoops + 1
    /\ pc' = "loop_run"
    /\ UNCHANGED <<entry, calls, result, stages, commands, fs>>
    /\ UNCHANGED orchVars
    /\ UNCHANGED <<audio_files, audio_failed, aud_i, tts_ok>>
    /\ UNCHANGED videoVars

\* loop.run_until_complete(self._generate_audio(text, output_path)): the
\* provider writes the file, or raises (also for an unsupported provider).
RunUntilComplete ==
    /\ pc = "loop_run"
    /\ \/ /\ tts_ok' = TRUE
          /\ fs' = fs \cup {AudioOf(aud_i, introductions)}
       \/ /\ tts_ok' = FALSE
          /\ UNCHANGED fs
    /\ calls' = Append(calls, Call(AudioCall(aud_i), aud_i, tts_ok'))
    /\ pc' = "loop_close"
    /\ UNCHANGED <<entry, result, stages, commands>>
    /\ UNCHANGED orchVars
    /\ UNCHANGED <<audio_files, audio_failed, aud_i, openLoops>>
    /\ UNCHANGED videoVars

\* AudioKey with the items numbered by the audios stored so far, so that the
\* items after a failed one move down.
AudioKeyRenumbered(i, files) ==
    IF i = 0 THEN 0 ELSE 1 + Cardinality(DOMAIN files \ {0})

\* The key generate_all_audio stores a path under: 'summary' (0), or
\* f'item_{i}' with i from enumerate(introductions, 1).
AudioKey(i, files) == i

\* LoopsAfterCall without the finally block: the loop is closed only when
\* run_until_complete returned.
LoopsAfterCallNoFinally(open, ok) == IF ok THEN open - 1 ELSE open

\* try: return loop.run_until_complete(...) finally: loop.close(): the number
\* of open loops when the call exits, given the number while it runs.
LoopsAfterCall(open, ok) == open - 1

\* finally: loop.close(); then back in generate_all_audio the path is stored
\* under its key, or the exception is logged and the loop continues.  After
\* the last introduction generate_all_audio returns audio_files.
LoopClose ==
    /\ pc = "loop_close"
    /\ openLoops' = LoopsAfterCall(openLoops, tts_ok)
    /\ IF tts_ok
       THEN /\ audio_files' = audio_files @@
                   (AudioKey(aud_i, audio_files) :> AudioOf(aud_i, introductions))
            /\ UNCHANGED audio_failed
       ELSE /\ audio_failed' = audio_failed \cup {aud_i}
            /\ UNCHANGED audio_files
    /\ aud_i' = aud_i + 1
    /\ pc' = IF aud_i = Len(introductions) THEN "assemble" ELSE "loop_new"
    /\ stages' = IF aud_i = Len(introductions) THEN Append(stages, "assemble") ELSE stages
    /\ UNCHANGED <<entry, calls, result, commands, fs, tts_ok>>
    /\ UNCHANGED orchVars
    /\ UNCHANGED videoVars

----------------------------------------------------------------------------
\* Step 7: the call of VideoGenerator.create_final_video

\* news_audios=[audio_files[f'item_{i+1}'] for i in range(len(processed_news))]
news_audios_of(files, n) == [i \in 1 .. n |-> files[i]]

\* The keys the orchestrator looks up in audio_files to build the arguments.
LookedUp == 0 .. Len(processed_news)

\* The arguments are evaluated (a missing key raises KeyError), then
\* create_final_video builds all_images and all_audios and calls
\* create_video_from_images(all_images, all_audios).
CallCreateFinalVideo ==
    /\ pc = "assemble"
    /\ IF LookedUp \subseteq DOMAIN audio_files
       THEN /\ image_paths' = <<overview_image>> \o news_images
            /\ audio_paths' = <<audio_files[0]>>
                                 \o news_audios_of(audio_files, Len(processed_news))
            /\ pc' = "probe"
            /\ UNCHANGED result
       ELSE /\ Raise("KeyError", "assemble")
            /\ UNCHANGED <<image_paths, audio_paths>>
    /\ UNCHANGED <<entry, calls, stages, commands, fs>>
    /\ UNCHANGED orchVars
    /\ UNCHANGED ttsVars
    /\ UNCHANGED <<durations, probe_log, temp_videos, temp_created, encoded,
                   concat_manifest, pending, cvfi_exit, video_path, transition_type>>

----------------------------------------------------------------------------
\* VideoGenerator: external tools

Command(tool, op, arg) == [tool |-> tool, op |-> op, arg |-> arg]

\* What a run of ffprobe on a file can end with: a parsable duration, a
\* non-zero exit status (always so for a missing file), output that float()
\* rejects, or no ffprobe executable at all.
ProbeOutcomes(files, path) ==
    IF path \in files
    THEN {"ok", "nonzero_exit", "unparsable", "not_installed"}
    ELSE {"nonzero_exit", "not_installed"}

\* try: subprocess.run(...); return float(...)
\* except (CalledProcessError, ValueError): return the fallback.
\* FileNotFoundError (no executable) is not caught.
ProbeResult(outcome, measured, fallback) ==
    CASE outcome = "ok"            -> [raised |-> "none", value |-> measured]
      [] outcome = "nonzero_exit"  -> [raised |-> "none", value |-> fallback]
      [] outcome = "unparsable"    -> [raised |-> "none", value |-> fallback]
      [] outcome = "not_installed" -> [raised |-> "FileNotFoundError", value |-> 0]

_get_audio_duration(outcome, measured) == ProbeResult(outcome, measured, AudioFallback)

_get_video_duration(outcome, measured) == ProbeResult(outcome, measured, VideoFallback)

\* What _run_ffmpeg_command can end with: it returns command[-1], or re-raises
\* CalledProcessError (non-zero exit, always so when an input is missing) or
\* FileNotFoundError (no ffmpeg executable).
FfmpegOutcomes(files, inputs) ==
    IF inputs \subseteq files
    THEN {"ok", "CalledProcessError", "FileNotFoundError"}
    ELSE {"CalledProcessError", "FileNotFoundError"}

\* Number of iterations of zip(image_paths, audio_paths, durations).
ZipLen == Min(Len(image_paths), Min(Len(audio_paths), Len(durations)))

\* ManifestLines written from the last temporary video to the first.
ManifestLinesReversed(videos) ==
    [k \in 1 .. Len(videos) |-> [file |-> videos[Len(videos) + 1 - k]]]

\* The lines written to the concat file, one per temporary video, in order.
ManifestLines(videos) == [k \in 1 .. Len(videos) |-> [file |-> videos[k]]]

\* Playable length of the concatenation of the segments made so far.
SegmentsDuration == SumSeq([k \in 1 .. Len(temp_videos) |-> durations[k]])

----------------------------------------------------------------------------
\* VideoGenerator.create_video_from_images(all_images, all_audios)

\* durations = [self._get_audio_duration(p) for p in audio_paths], one probe
\* per step.  An exception here is raised before the try block is entered.
ProbeAudioDuration ==
    /\ pc = "probe"
    /\ LET j == Len(durations) + 1 IN
       \E outcome \in ProbeOutcomes(fs, audio_paths[j]), measured \in MeasuredAudio :
          LET r == _get_audio_duration(outcome, measured) IN
          /\ commands' = Append(commands, Command("ffprobe", "audio_duration", j))
          /\ probe_log' = Append(probe_log,
                                 [kind |-> "audio", outcome |-> outcome, result |-> r])
          /\ IF r.raised = "none"
             THEN /\ durations' = Append(durations, r.value)
                  /\ pc' = IF j = Len(audio_paths) THEN "segment" ELSE "probe"
                  /\ UNCHANGED <<result, cvfi_exit>>
             ELSE /\ cvfi_exit' = "raised"
                  /\ Raise(r.raised, "assemble")
                  /\ UNCHANGED durations
    /\ UNCHANGED <<entry, calls, stages, fs>>
    /\ UNCHANGED orchVars
    /\ UNCHANGED ttsVars
    /\ UNCHANGED <<image_paths, audio_paths, temp_videos, temp_created, encoded,
                   concat_manifest, pending, video_path, transition_type>>

\* CreateVideoSegment with the encode failure logged and skipped: the loop
\* goes on with the next pair.
CreateVideoSegmentSkipped ==
    /\ pc = "segment"
    /\ LET i == Len(encoded) + 1
           temp_video == Path("segment", i)
       IN
       \E outcome \in FfmpegOutcomes(fs, {image_paths[i], audio_paths[i]}) :
          /\ fs' = fs \cup {temp_video}
          /\ temp_created' = temp_created \cup {temp_video}
          /\ commands' = Append(commands, Command("ffmpeg", "segment", i))
          /\ encoded' = Append(encoded, [image |-> image_paths[i],
                                         audio |-> audio_paths[i],
                                         duration |-> durations[i],
                                         output |-> temp_video,
                                         outcome |-> outcome])
          /\ temp_videos' = IF outcome = "ok" THEN Append(temp_videos, temp_video)
                                              ELSE temp_videos
          /\ pc' = IF i = ZipLen THEN "concat" ELSE "segment"
          /\ UNCHANGED pending
    /\ UNCHANGED <<entry, calls, result, stages>>
    /\ UNCHANGED orchVars
    /\ UNCHANGED ttsVars
    /\ UNCHANGED <<image_paths, audio_paths, durations, probe_log, concat_manifest,
                   cvfi_exit, video_path, transition_type>>

\* One iteration of the segment loop: a NamedTemporaryFile(delete=False) is
\* created, create_video_segment encodes into it, and only then is its name
\* appended to temp_videos.  An encode failure leaves the try block.
CreateVideoSegment ==
    /\ pc = "segment"
    /\ LET i == Len(temp_videos) + 1
           temp_video == Path("segment", i)
       IN
       \E outcome \in FfmpegOutcomes(fs, {image_paths[i], audio_paths[i]}) :
          /\ fs' = fs \cup {temp_video}
          /\ temp_created' = temp_created \cup {temp_video}
          /\ commands' = Append(commands, Command("ffmpeg", "segment", i))
          /\ encoded' = Append(encoded, [image |-> image_paths[i],
                                         audio |-> audio_paths[i],
                                         duration |-> durations[i],
                                         output |-> temp_video,
                                         outcome |-> outcome])
          /\ IF outcome = "ok"
             THEN /\ temp_videos' = Append(temp_videos, temp_video)
                  /\ pc' = IF i = ZipLen THEN "concat" ELSE "segment"
                  /\ UNCHANGED pending
             ELSE /\ pending' = outcome
                  /\ pc' = "cleanup"
                  /\ UNCHANGED temp_videos
    /\ UNCHANGED <<entry, calls, result, stages>>
    /\ UNCHANGED orchVars
    /\ UNCHANGED ttsVars
    /\ UNCHANGED <<image_paths, audio_paths, durations, probe_log, concat_manifest,
                   cvfi_exit, video_path, transition_type>>

\* SingleVideo with the comparison off by one.
SingleVideoOffByOne(videos) == Len(videos) = 0

\* if len(temp_videos) == 1: ... else: ...
SingleVideo(videos) == Len(videos) = 1

\* len(temp_videos) == 1: the re-encode command is built, and the branch ends;
\* _run_ffmpeg_command is called in the else branch only.
ConcatSingle ==
    /\ pc = "concat"
    /\ SingleVideo(temp_videos)
    /\ pending' = "return"
    /\ pc' = "cleanup"
    /\ UNCHANGED <<entry, calls, result, stages, commands, fs>>
    /\ UNCHANGED orchVars
    /\ UNCHANGED ttsVars
    /\ UNCHANGED <<image_paths, audio_paths, durations, probe_log, temp_videos,
                   temp_created, encoded, concat_manifest, cvfi_exit, video_path,
                   transition_type>>

\* else: the concat file is written and closed, the concat command is run, and
\* after it has returned the concat file is unlinked.
ConcatMulti ==
    /\ pc = "concat"
    /\ ~SingleVideo(temp_videos)
    /\ concat_manifest' = ManifestLines(temp_videos)
    /\ temp_created' = temp_created \cup {ConcatPath}
    /\ commands' = Append(commands, Command("ffmpeg", "concat", Len(temp_videos)))
    /\ \E outcome \in FfmpegOutcomes(fs \cup {ConcatPath},
                                     Range(temp_videos) \cup {ConcatPath}) :
          IF outcome = "ok"
          THEN /\ fs' = (fs \cup {ConcatPath, IntermediatePath}) \ {ConcatPath}
               /\ pending' = "return"
          ELSE /\ fs' = fs \cup {ConcatPath}
               /\ pending' = outcome
    /\ pc' = "cleanup"
    /\ UNCHANGED <<entry, calls, result, stages>>
    /\ UNCHANGED orchVars
    /\ UNCHANGED ttsVars
    /\ UNCHANGED <<image_paths, audio_paths, durations, probe_log, temp_videos,
                   encoded, cvfi_exit, video_path, transition_type>>

\* finally: every name in temp_videos that exists is unlinked; then the call
\* returns output_path or the pending exception propagates, through
\* create_final_video, to the orchestrator.
CleanupTempVideos ==
    /\ pc = "cleanup"
    /\ fs' = fs \ Range(temp_videos)
    /\ IF pending = "return"
       THEN /\ cvfi_exit' = "returned"
            /\ video_path' = IntermediatePath
            /\ pc' = "transition"
            /\ UNCHANGED result
       ELSE /\ cvfi_exit' = "raised"
            /\ Raise(pending, "assemble")
            /\ UNCHANGED video_path
    /\ UNCHANGED <<entry, calls, stages, commands>>
    /\ UNCHANGED orchVars
    /\ UNCHANGED ttsVars
    /\ UNCHANGED <<image_paths, audio_paths, durations, probe_log, temp_videos,
                   temp_created, encoded, concat_manifest, pending, transition_type>>

----------------------------------------------------------------------------
\* VideoGenerator.add_transition and the end of create_final_video

\* The values of transition_type a caller of add_transition passes: the two
\* documented ones and an unrecognized one.
TransitionTypes == {"fade", "none", "wipe"}

\* IsFade with every value but "none" taken for a fade.
IsFadeUnlessNone(t) == t # "none"

\* if transition_type == "fade": ... else: ...
IsFade(t) == t = "fade"

\* add_transition(video_path, output_path, transition_type): for "fade" the
\* video duration is probed while the command is built; any other
\* transition_type builds the stream-copy command.  Then the command is run.
\* Inside create_final_video the call is followed by the unlink of the
\* intermediate; a direct call returns to its caller.
AddTransition ==
    /\ pc = "transition"
    /\ \E probe \in ProbeOutcomes(fs, video_path),
          outcome \in FfmpegOutcomes(fs, {video_path}) :
          LET r == _get_video_duration(probe, SegmentsDuration) IN
          IF IsFade(transition_type) /\ r.raised # "none"
          THEN /\ commands' = Append(commands, Command("ffprobe", "video_duration", 0))
               /\ probe_log' = Append(probe_log,
                                      [kind |-> "video", outcome |-> probe, result |-> r])
               /\ Raise(r.raised, "assemble")
               /\ UNCHANGED fs
          ELSE /\ IF IsFade(transition_type)
                  THEN /\ commands' = commands \o
                              <<Command("ffprobe", "video_duration", 0),
                                Command("ffmpeg", "fade", r.value - FadeSeconds)>>
                       /\ probe_log' = Append(probe_log,
                              [kind |-> "video", outcome |-> probe, result |-> r])
                  ELSE /\ commands' = Append(commands, Command("ffmpeg", "copy", 0))
                       /\ UNCHANGED probe_log
               /\ IF outcome = "ok"
                  THEN /\ fs' = fs \cup {FinalPath}
                       /\ IF entry = "add_transition"
                          THEN /\ pc' = "done"
                               /\ result' = Outcome("returned", FinalPath, "none", "none")
                          ELSE /\ pc' = "unlink"
                               /\ UNCHANGED result
                  ELSE /\ Raise(outcome, "assemble")
                       /\ UNCHANGED fs
    /\ UNCHANGED <<entry, calls, stages>>
    /\ UNCHANGED orchVars
    /\ UNCHANGED ttsVars
    /\ UNCHANGED <<image_paths, audio_paths, durations, temp_videos, temp_created,
                   encoded, concat_manifest, pending, cvfi_exit, video_path,
                   transition_type>>

\* if os.path.exists(video_path): os.unlink(video_path); return final_video.
\* The orchestrator returns that path to its caller.
UnlinkIntermediate ==
    /\ pc = "unlink"
    /\ fs' = fs \ {video_path}
    /\ pc' = "done"
    /\ stages' = Append(stages, "finish")
    /\ result' = Outcome("returned", FinalPath, "none", "none")
    /\ UNCHANGED <<entry, calls, commands>>
    /\ UNCHANGED orchVars
    /\ UNCHANGED ttsVars
    /\ UNCHANGED videoVars

----------------------------------------------------------------------------

Next ==
    \/ Fetch
    \/ ProcessNewsData
    \/ GenerateSummary
    \/ GenerateItemIntroduction
    \/ GenerateOverviewImage
    \/ GenerateAllNewsImages
    \/ NewEventLoop
    \/ RunUntilComplete
    \/ LoopClose
    \/ CallCreateFinalVideo
    \/ ProbeAudioDuration
    \/ CreateVideoSegment
    \/ ConcatSingle
    \/ ConcatMulti
    \/ CleanupTempVideos
    \/ AddTransition
    \/ UnlinkIntermediate

Spec == Init /\ [][Next]_vars

----------------------------------------------------------------------------
\* A direct call of the public method add_transition(video_path, output_path,
\* transition_type) on a video that an earlier create_video_from_images made
\* from two or more segments, or on a path where no file exists.

\* The duration a segment can have: a measured one or the audio fallback.
SegmentDurations == MeasuredAudio \cup {AudioFallback}

InitTransition ==
    /\ entry = "add_transition"
    /\ pc = "transition"
    /\ stages = <<>>
    /\ result = Outcome("running", NoPath, "none", "none")
    /\ calls = <<>>
    /\ raw_news_data = <<>>
    /\ json_outcome = <<>>
    /\ processed_news = <<>>
    /\ summary = "none"
    /\ introductions = <<>>
    /\ overview_image = NoPath
    /\ news_images = <<>>
    /\ image_failed = {}
    /\ audio_files = <<>>
    /\ audio_failed = {}
    /\ aud_i = 0
    /\ tts_ok = FALSE
    /\ openLoops = 0
    /\ image_paths = <<>>
    /\ audio_paths = <<>>
    /\ \E n \in 2 .. MaxItems + 1 :
          /\ durations \in [1 .. n -> SegmentDurations]
          /\ temp_videos = [k \in 1 .. n |-> Path("segment", k)]
    /\ probe_log = <<>>
    /\ temp_created = {}
    /\ encoded = <<>>
    /\ concat_manifest = <<>>
    /\ pending = "return"
    /\ cvfi_exit = "returned"
    /\ video_path = IntermediatePath
    /\ transition_type \in TransitionTypes
    /\ commands = <<>>
    /\ fs \in {{}, {IntermediatePath}}

NextTransition == AddTransition

SpecTransition == InitTransition /\ [][NextTransition]_vars

----------------------------------------------------------------------------
\* Properties

\* create_final_video has been left, by return or by exception.
FinalVideoExited == pc \in {"done", "raised"} /\ image_paths # <<>>

\* C1: after create_video_from_images has exited, by return or by exception,
\* no temporary segment file and no concat file it created exists.
C1_TempFilesAbsentAfterExit ==
    cvfi_exit # "none" => temp_created \cap fs = {}

\* C2: the image list and the audio list handed to assembly have equal length
\* and refer to the same news item at every position, and every segment is
\* encoded from the image and the audio of one item.
C2_IndexAlignment ==
    /\ image_paths # <<>> =>
          /\ Len(image_paths) = Len(audio_paths)
          /\ \A k \in 1 .. Len(image_paths) : image_paths[k].item = audio_paths[k].item
    /\ \A k \in 1 .. Len(encoded) : encoded[k].image.item = encoded[k].audio.item

\* C3: when create_video_from_images returns after synthesizing exactly one
\* segment, the output it returns exists.
C3_SingleSegmentOutputExists ==
    (pc = "transition" /\ Len(temp_videos) = 1) => video_path \in fs

\* C4: no duration probe raises; every probe that does not yield a parsable
\* duration returns 5 for audio and 10 for video.
C4_ProbeNeverRaises ==
    \A k \in 1 .. Len(probe_log) :
        LET p == probe_log[k] IN
        p.outcome # "ok" =>
            /\ p.result.raised = "none"
            /\ p.result.value = IF p.kind = "audio" THEN AudioFallback ELSE VideoFallback

\* generate_all_audio has returned and the orchestrator has gone on.
AfterNarration == aud_i > Len(introductions) /\ pc # "assemble"

\* C5: when the audio of some news item fails while the summary audio
\* succeeds, the run reaches assembly and hands it an audio list without the
\* failed item.
C5_AudioFailureExcludesItem ==
    (AfterNarration /\ 0 \notin audio_failed /\ audio_failed # {}) =>
        /\ image_paths # <<>>
        /\ \A i \in audio_failed : AudioOf(i, introductions) \notin Range(audio_paths)

\* C6: a failing generate_item_introduction call never ends the run: the run
\* does not raise at the introduction stage.
C6_IntroductionFailureContinues ==
    \A k \in 1 .. Len(calls) :
        (calls[k].call = "generate_item_introduction" /\ ~calls[k].ok) =>
            ~(result.status = "raised" /\ result.stage = "introduce")

\* The raw positions whose formatting succeeded, and the j-th of them.
Survivors == {k \in 1 .. Len(raw_news_data) : json_outcome[k] # "fail"}
Survivor(j) == CHOOSE k \in Survivors : Cardinality({m \in Survivors : m <= k}) = j

\* C7: once _process_news_data has run, the run is at or past the summary
\* stage (it did not raise) and processed_news holds exactly the formatted
\* records of the items whose formatting succeeded, in input order.
C7_ProcessDropsFailedItems ==
    (entry = "generate_news_video" /\ pc \notin {"fetch", "process"}
                                   /\ result.stage # "fetch") =>
        /\ "summarize" \in Range(stages)
        /\ result.stage # "process"
        /\ Len(processed_news) = Cardinality(Survivors)
        /\ \A j \in 1 .. Len(processed_news) :
              processed_news[j] =
                  FormattedNews(raw_news_data[Survivor(j)], json_outcome[Survivor(j)])

\* C7 witness: an item after a failed one survived, and the summary stage is
\* reached with the shorter list.
C7_Witness ==
    /\ pc = "summarize"
    /\ Len(raw_news_data) >= 2
    /\ json_outcome[1] = "fail"
    /\ json_outcome[2] # "fail"
    /\ Len(processed_news) = Len(raw_news_data) - 1
    /\ processed_news[1].id = raw_news_data[2]

\* C8: a failing generate_summary call is the last collaborator call of the
\* run: the run has raised that error and no introduction, image, audio or
\* video step has been made.
C8_SummaryFailureIsFatal ==
    \A k \in 1 .. Len(calls) :
        (calls[k].call = "generate_summary" /\ ~calls[k].ok) =>
            /\ k = Len(calls)
            /\ pc = "raised"
            /\ result.status = "raised"
            /\ result.error = "SummaryError"
            /\ introductions = <<>>
            /\ overview_image = NoPath
            /\ news_images = <<>>
            /\ DOMAIN audio_files = {}
            /\ openLoops = 0
            /\ commands = <<>>
            /\ encoded = <<>>

\* C8 witness: generate_summary failed on a non-empty list of news items.
C8_Witness ==
    /\ result.error = "SummaryError"
    /\ Len(processed_news) >= 2

\* C9: the concat file lists the segments in the order of the input pairs,
\* each once, and create_final_video puts the overview pair first, followed
\* by the news images and the news audios in the order given.
C9_OrderPreserved ==
    /\ concat_manifest # <<>> =>
          /\ Len(concat_manifest) = ZipLen
          /\ \A k \in 1 .. Len(concat_manifest) :
                /\ concat_manifest[k].file = encoded[k].output
                /\ encoded[k].image = image_paths[k]
                /\ encoded[k].audio = audio_paths[k]
          /\ \A j, k \in 1 .. Len(concat_manifest) :
                j # k => concat_manifest[j] # concat_manifest[k]
    /\ image_paths # <<>> =>
          /\ image_paths[1] = overview_image
          /\ audio_paths[1] = audio_files[0]
          /\ Len(image_paths) = 1 + Len(news_images)
          /\ Len(audio_paths) = 1 + Len(processed_news)
          /\ \A k \in 1 .. Len(news_images) : image_paths[k + 1] = news_images[k]
          /\ \A k \in 1 .. Len(processed_news) : audio_paths[k + 1] = audio_files[k]

\* C9 witness: a concat file with at least three segments has been written.
C9_Witness ==
    /\ Len(concat_manifest) >= 3
    /\ pc = "cleanup"

\* C10: after create_final_video has exited, by return or by exception of the
\* transition, the intermediate video does not exist.
C10_IntermediateAbsentAfterExit ==
    (FinalVideoExited /\ cvfi_exit = "returned") => IntermediatePath \notin fs

\* The errors a failing collaborator step raises.
CollaboratorErrors ==
    {"FetchError", "SummaryError", "IntroductionError", "RenderError",
     "CalledProcessError", "FileNotFoundError"}

\* C11: a run that has ended has returned the path of the final video, which
\* exists, or has raised the error of the collaborator step that failed.
C11_PathOrOriginalError ==
    pc \in {"done", "raised"} =>
        \/ /\ result.status = "returned"
           /\ result.path = FinalPath
           /\ FinalPath \in fs
        \/ /\ result.status = "raised"
           /\ result.error \in CollaboratorErrors

\* The commands issued after the segment loop: concatenation and transition.
LaterCommands == {k \in 1 .. Len(commands) : commands[k].op \in {"concat", "fade", "copy"}}

\* C12: a failed segment encode is the last encode of the call: no later
\* segment, no concatenation and no transition is run, the concat file is not
\* written, and the run raises that error and returns no path.
C12_EncodeFailurePropagates ==
    \A k \in 1 .. Len(encoded) :
        encoded[k].outcome # "ok" =>
            /\ k = Len(encoded)
            /\ commands[Len(commands)] = Command("ffmpeg", "segment", k)
            /\ LaterCommands = {}
            /\ concat_manifest = <<>>
            /\ pc \in {"cleanup", "raised"}
            /\ pending = encoded[k].outcome
            /\ result.status # "returned"
            /\ pc = "raised" =>
                  /\ cvfi_exit = "raised"
                  /\ result = Outcome("raised", NoPath, encoded[k].outcome, "assemble")

\* C12 witness: the second segment's encode failed after the first succeeded,
\* with a third pair left, and the error has reached the caller.
C12_Witness ==
    /\ pc = "raised"
    /\ Len(encoded) = 2
    /\ encoded[2].outcome = "CalledProcessError"
    /\ ZipLen >= 3

\* C13: once add_transition has acted, a transition_type other than "fade"
\* has issued exactly the stream-copy command, with no duration probe; "fade"
\* has probed the duration and, unless the probe raised, issued the fade
\* command that starts the fade-out one second before the probed end; and the
\* call has returned the output path or raised the error of the tool run.
C13_OnlyFadeFades ==
    commands # <<>> =>
        /\ IF transition_type = "fade"
           THEN /\ commands[1] = Command("ffprobe", "video_duration", 0)
                /\ Len(probe_log) = 1
                /\ IF probe_log[1].result.raised = "none"
                   THEN commands = <<commands[1],
                                     Command("ffmpeg", "fade",
                                             probe_log[1].result.value - FadeSeconds)>>
                   ELSE Len(commands) = 1
           ELSE /\ commands = <<Command("ffmpeg", "copy", 0)>>
                /\ probe_log = <<>>
        /\ \/ result = Outcome("returned", FinalPath, "none", "none") /\ FinalPath \in fs
           \/ /\ result.status = "raised"
              /\ result.error \in {"CalledProcessError", "FileNotFoundError"}

\* C13 witness: an unrecognized transition_type was served by the copy command
\* and the call returned.
C13_Witness ==
    /\ transition_type = "wipe"
    /\ commands = <<Command("ffmpeg", "copy", 0)>>
    /\ result.status = "returned"

\* create_video_from_images was called with lists that zip to one pair.
OnePair == image_paths # <<>> /\ Min(Len(image_paths), Len(audio_paths)) = 1

\* C14: in a call with exactly one pair the concat file is never created or
\* written and the concat command is never issued.
C14_SinglePairNoManifest ==
    OnePair =>
        /\ ConcatPath \notin fs
        /\ ConcatPath \notin temp_created
        /\ concat_manifest = <<>>
        /\ \A k \in 1 .. Len(commands) : commands[k].op # "concat"

\* C14 witness: create_video_from_images has returned from a call with
\* exactly one image and one audio.
C14_Witness ==
    /\ cvfi_exit = "returned"
    /\ Len(image_paths) = 1
    /\ Len(audio_paths) = 1
    /\ Len(temp_videos) = 1

\* The stages of a run, in the order of the steps of generate_news_video.
StageOrder ==
    <<"fetch", "process", "summarize", "introduce", "image", "narrate", "assemble",
      "finish">>

\* generate_from_news_list starts with the summary.
FirstStage == IF entry = "generate_news_video" THEN 1 ELSE 3

StageIndex(s) == CHOOSE k \in 1 .. Len(StageOrder) : StageOrder[k] = s

\* The stage a collaborator call belongs to.
CallStage(name) ==
    CASE name = "news_data_fetcher"            -> "fetch"
      [] name = "generate_news_json"           -> "process"
      [] name = "generate_summary"             -> "summarize"
      [] name = "generate_item_introduction"   -> "introduce"
      [] name = "generate_overview_image"      -> "image"
      [] name = "generate_news_item_image"     -> "image"
      [] name = "generate_summary_audio"       -> "narrate"
      [] name = "generate_item_audio"          -> "narrate"

\* The stages entered so far are consecutive stages of the fixed order, each
\* once; every call was made in a stage already entered and no call of an
\* earlier stage follows a call of a later one; tools run only in assembly;
\* a raised run stands at its end, in the stage entered last.
StagesInOrder ==
    /\ Len(stages) >= 1
    /\ FirstStage + Len(stages) - 1 <= Len(StageOrder)
    /\ \A k \in 1 .. Len(stages) : stages[k] = StageOrder[FirstStage + k - 1]
    /\ \A k \in 1 .. Len(calls) : CallStage(calls[k].call) \in Range(stages)
    /\ \A j, k \in 1 .. Len(calls) :
          j < k => StageIndex(CallStage(calls[j].call))
                      <= StageIndex(CallStage(calls[k].call))
    /\ commands # <<>> => "assemble" \in Range(stages)
    /\ result.status = "raised" =>
          /\ pc = "raised"
          /\ result.stage = stages[Len(stages)]
    /\ result.status = "returned" => pc = "done" /\ stages[Len(stages)] = "finish"

\* C15: the stages are entered in the fixed order, none twice and none again
\* after a later one, and a run that has raised or returned takes no further
\* step.
C15_StagesForwardOnly ==
    /\ []StagesInOrder
    /\ [][pc \notin {"raised", "done"}]_vars

\* C15 witness: a run raised in the introduction stage, after the fetch,
\* process and summary stages.
C15_Witness ==
    /\ pc = "raised"
    /\ stages = <<"fetch", "process", "summarize", "introduce">>
    /\ Len(calls) >= 4

\* The run is inside generate_summary_audio or generate_item_audio, between
\* the creation of the loop and the exit of the call.
InNarrationCall == pc \in {"loop_run", "loop_close"}

\* The narration calls made so far.
AudioCalls == {k \in 1 .. Len(calls) : calls[k].call \in {"generate_summary_audio",
                                                          "generate_item_audio"}}

\* C16: exactly one event loop is open inside a narration call and none
\* outside of it, whatever the outcomes of the calls before: every call
\* closes the loop it created, on success and on failure, and no two loops
\* are ever open at once.
C16_OneLoopPerCall ==
    /\ openLoops = IF InNarrationCall THEN 1 ELSE 0
    /\ pc = "loop_new" => Cardinality(AudioCalls) = aud_i

\* C16 witness: a narration call is running on its own loop after an earlier
\* call raised and an earlier call succeeded.
C16_Witness ==
    /\ pc = "loop_run"
    /\ openLoops = 1
    /\ \E j, k \in AudioCalls : calls[j].ok /\ ~calls[k].ok

\* Two news items, of which only the image of item 2 failed; every audio
\* succeeded and the lists have been handed to create_final_video.
OnlyImageTwoFailed ==
    /\ Len(processed_news) = 2
    /\ image_failed = {2}
    /\ audio_failed = {}
    /\ image_paths # <<>>

\* C17: in that run the lists handed to assembly hold the overview and item 1
\* only, item 2's audio is not in the audio list, and the segments encoded
\* are the overview's and then item 1's, each from its own image and audio.
C17_ImageFailureDropsAudio ==
    OnlyImageTwoFailed =>
        /\ image_paths = <<overview_image, NewsItemImage(processed_news[1])>>
        /\ audio_paths = <<AudioOf(0, introductions), AudioOf(1, introductions)>>
        /\ AudioOf(2, introductions) \notin Range(audio_paths)
        /\ Len(encoded) <= 2
        /\ \A k \in 1 .. Len(encoded) :
              /\ encoded[k].image = image_paths[k]
              /\ encoded[k].audio = AudioOf(k - 1, introductions)

\* The concatenation step of create_video_from_images has been reached.
ConcatReached ==
    \/ pc = "concat"
    \/ pending = "return"
    \/ \E k \in 1 .. Len(commands) : commands[k].op = "concat"

\* add_transition has been invoked.
TransitionInvoked ==
    \E k \in 1 .. Len(commands) : commands[k].op \in {"video_duration", "fade", "copy"}

\* The concatenation step is reached with one successfully encoded segment
\* per zipped triple, in order, and the transition is invoked after
\* create_video_from_images returned.
AssemblyInOrder ==
    /\ ConcatReached =>
          /\ Len(encoded) = ZipLen
          /\ Len(temp_videos) = ZipLen
          /\ \A k \in 1 .. ZipLen :
                /\ encoded[k].outcome = "ok"
                /\ encoded[k].image = image_paths[k]
                /\ encoded[k].audio = audio_paths[k]
                /\ encoded[k].duration = durations[k]
                /\ temp_videos[k] = encoded[k].output
    /\ TransitionInvoked => cvfi_exit = "returned"

\* A step that deletes the intermediate video is the unlink of
\* create_final_video, taken when the transition has written the final video.
UnlinkAfterTransition ==
    (IntermediatePath \in fs /\ IntermediatePath \notin fs') =>
        /\ pc = "unlink"
        /\ FinalPath \in fs
        /\ commands[Len(commands)].op = "fade"

\* C18: concatenation only after every zipped triple has its segment, the
\* transition only after create_video_from_images has returned, the deletion
\* of the intermediate only after the transition has returned.
C18_AssemblyOrdering ==
    /\ []AssemblyInOrder
    /\ [][UnlinkAfterTransition]_vars

\* C18 witness: a run of three segments has gone through concatenation,
\* transition and the deletion of the intermediate.
C18_Witness ==
    /\ pc = "done"
    /\ Len(encoded) >= 3
    /\ IntermediatePath \notin fs
    /\ FinalPath \in fs

\* The positions whose image was rendered, and the j-th of them.
Rendered == (1 .. Len(processed_news)) \ image_failed
RenderedAt(j) == CHOOSE i \in Rendered : Cardinality({m \in Rendered : m <= i}) = j

\* The generate_news_item_image calls made so far.
ItemImageCalls == {k \in 1 .. Len(calls) : calls[k].call = "generate_news_item_image"}

\* C19: once generate_all_news_images has been called it has returned (the
\* run has not raised there and is at or past narration), it has tried every
\* item, and news_images holds the images of exactly the items rendered, in
\* input order: the j-th path is the image of the j-th rendered item.
C19_ImagesOfSuccesses ==
    ItemImageCalls # {} =>
        /\ "narrate" \in Range(stages)
        /\ result.stage # "image"
        /\ {calls[k].arg : k \in ItemImageCalls} = 1 .. Len(processed_news)
        /\ \A k \in ItemImageCalls : calls[k].ok <=> calls[k].arg \notin image_failed
        /\ Len(news_images) = Cardinality(Rendered)
        /\ \A j \in 1 .. Len(news_images) :
              news_images[j] = NewsItemImage(processed_news[RenderedAt(j)])

\* C19 witness: the first item failed to render and the image of the second
\* moved down to the first position.
C19_Witness ==
    /\ Len(processed_news) >= 2
    /\ image_failed = {1}
    /\ Len(news_images) = Len(processed_news) - 1
    /\ news_images[1] = NewsItemImage(processed_news[2])

\* The narration call for key i has been made and has succeeded.
Narrated(i) == \E k \in AudioCalls : calls[k].arg = i /\ calls[k].ok

\* C20: generate_all_audio does not raise; of the keys whose call has
\* exited, the mapping holds exactly those whose synthesis succeeded, each
\* under its original index and mapped to the audio of that introduction;
\* when the run has gone on to assembly every key has been tried.
C20_AudioKeysKeepIndices ==
    /\ result.stage # "narrate"
    /\ DOMAIN audio_files = {i \in 0 .. aud_i - 1 : Narrated(i)}
    /\ \A i \in DOMAIN audio_files : audio_files[i] = AudioOf(i, introductions)
    /\ "assemble" \in Range(stages) =>
          /\ aud_i = Len(introductions) + 1
          /\ {calls[k].arg : k \in AudioCalls} = 0 .. Len(introductions)

\* C20 witness: generate_all_audio has returned after the audio of item 1
\* failed and the audio of item 2 succeeded: key 2 is present, key 1 is not.
C20_Witness ==
    /\ pc = "assemble"
    /\ 1 \in audio_failed
    /\ 2 \in DOMAIN audio_files
    /\ 1 \notin DOMAIN audio_files

====
